---- MODULE Spec2Model ----
(***************************************************************************)
(* Model of the boxing-intelligence orchestrator:                          *)
(*   - the tool-calling loops of frontend/app.py (process_query) and of    *)
(*     main.py (interactive_mode, demo_simple_query);                      *)
(*   - the CircuitBreaker of langchain_integration/resilience.py, called   *)
(*     by several coroutines that interleave at their await points.        *)
(* Spec   is the specification of one run of a tool-calling loop.          *)
(* SpecCB is the specification of one circuit breaker under concurrent     *)
(*        callers and a clock.                                             *)
(* SpecRetry is one call of retry_with_backoff, SpecPlatform the building  *)
(* of the tool registry, SpecBreakers the process-wide breaker registry.   *)
(***************************************************************************)
EXTENDS Integers, Sequences, FiniteSets, TLC

VARIABLES
    \* ---- one run of a tool-calling loop ----
    driver,            \* which loop runs: process_query / interactive_mode / demo_simple_query
    pc,                \* "model": about to await agent.ainvoke; "tools": inside the for loop;
                       \* "returned": the loop function returned; "raised": an exception left it
    iteration,         \* process_query's local `iteration`
    msgs,              \* the conversation (msgs / messages)
    resp,              \* the last value returned by agent.ainvoke
    tcIdx,             \* position of the for loop in resp.tool_calls (1-based)
    tool_calls,        \* process_query's local trace `tool_calls`
    outcome,           \* what the run handed to its caller: return value or exception
    modelCalls,        \* history: number of agent.ainvoke calls made by the run
    monitor,           \* the process-wide PerformanceMonitor (_monitor)
    \* ---- one CircuitBreaker and its callers ----
    state,             \* self.state
    failure_count,     \* self.failure_count
    success_count,     \* self.success_count
    last_failure_time, \* self.last_failure_time
    now,               \* time.time()
    inflight,          \* coroutines suspended in `await func(...)`, by kind of admission
    invocations,       \* history: number of times the wrapped function was invoked
    consecFailures,    \* history: failures recorded since the last recorded success
    probeSuccesses,    \* history: successes of probe calls since HALF_OPEN was entered
    ev,                \* history: the last breaker operation and the state it started in
    \* ---- one call of retry_with_backoff ----
    config,            \* the RetryConfig in use
    rpc,               \* "idle"; "loop": at the for statement; "sleep": in asyncio.sleep;
                       \* "returned"; "raised"
    attempt,           \* the loop variable `attempt` (0 before the first iteration)
    delay,             \* the local `delay`
    last_exception,    \* the local `last_exception`
    retry_result,      \* what retry_with_backoff handed to its caller
    sleeps,            \* history: the durations passed to asyncio.sleep, in order
    attempts_made,     \* history: the outcome of each invocation of func, in order
    \* ---- initialize_platform / setup of main.py ----
    ipc,               \* "start"; "loaded": get_tools returned; "returned"; "raised"
    tools,             \* the list returned by client.get_tools()
    platform_tool_map, \* the dict built from `tools` (name -> tool); <<>> before
    \* ---- the module-level _circuit_breakers ----
    circuit_breakers,  \* server name -> reference to its CircuitBreaker (0: no key)
    instances,         \* the CircuitBreaker objects created so far, by reference
    last_use,          \* history: the last operation on the registry
    recorded,          \* history: number of outcomes recorded through the registry
    \* ---- retry_with_backoff around breaker.call around call_with_timeout ----
    tconfig,           \* the timeout and the RetryConfig of the call
    tpc,               \* "idle"; "loop": at retry's for statement; "await": inside
                       \* asyncio.wait_for; "sleep"; "returned"; "raised"
    tattempt,          \* retry's loop variable `attempt`
    tdelay,            \* retry's local `delay`
    telapsed,          \* seconds the wrapped function has run in this attempt
    tnow,              \* time.time()
    tbreaker,          \* the CircuitBreaker the call goes through
    toutcome,          \* what the caller of retry_with_backoff got
    tev,               \* history: the last exception handled and the attempt it ended
    \* ---- the module-level _monitor of observability/monitoring.py ----
    global_monitor,    \* `_monitor`: reference to a PerformanceMonitor (0: None)
    monitor_objects,   \* the PerformanceMonitor objects created so far, by reference
    local_monitor,     \* a caller's `monitor = get_monitor()` (0: not assigned)
    tally,             \* history: per object, the operations made on it
    mon_ev,            \* history: the last operation and the object it used
    mon_ops,           \* history: number of log operations made
    resets,            \* history: number of reset_monitor() calls
    \* ---- one MCP server process (mcp_servers/boxing_odds.py, boxing_news.py) ----
    provider,          \* which server this is ("none" when not started)
    secret_set,        \* whether its API key was in the environment at import
    listed,            \* the last answer of list_tools()
    request,           \* the last call_tool request
    reply              \* what call_tool did with it

loopVars == <<driver, pc, iteration, msgs, resp, tcIdx, tool_calls, outcome, modelCalls,
              monitor>>
cbVars == <<state, failure_count, success_count, last_failure_time, now, inflight,
            invocations, consecFailures, probeSuccesses, ev>>
retryVars == <<config, rpc, attempt, delay, last_exception, retry_result, sleeps,
               attempts_made>>
platformVars == <<ipc, tools, platform_tool_map>>
breakersVars == <<circuit_breakers, instances, last_use, recorded>>
monitorVars == <<global_monitor, monitor_objects, local_monitor, tally, mon_ev, mon_ops,
                 resets>>
providerVars == <<provider, secret_set, listed, request, reply>>
timedVars == <<tconfig, tpc, tattempt, tdelay, telapsed, tnow, tbreaker, toutcome, tev>>
vars == <<loopVars, cbVars, retryVars, platformVars, breakersVars, timedVars, monitorVars, providerVars>>

----------------------------------------------------------------------------
(* Program constants *)

max_iterations == 10
failure_threshold == 5
recovery_timeout == 60
success_threshold == 2

(* Bounds of the model *)

MaxModelCalls == 11
MaxInFlight == 3
MaxInvocations == 9
MaxTime == 180
TickStep == 30
MaxAttempts == 4
MaxTools == 3
MaxRecorded == 6
MaxInstances == 4
MaxTimeout == 2
MaxTimedAttempts == 3
MaxLogged == 4
MaxResets == 2

----------------------------------------------------------------------------
(* The tool-calling loops *)

Drivers == {"process_query", "interactive_mode", "demo_simple_query"}

\* Only process_query has `while iteration < max_iterations`; main.py loops `while True`.
HasBudget(d) == d = "process_query"

\* Only process_query keeps (and returns) the trace `tool_calls`.
HasTrace(d) == d = "process_query"

\* tool_map = {t.name: t for t in tools}: the names the registry knows.
tool_map == {"get_fighter_stats", "get_fight_odds"}

\* The tool-request lists a model turn may carry (names as the model emits them).
ReqLists == { <<"get_fighter_stats">>,
              <<"nonexistent_tool", "get_fight_odds", "nonexistent_tool">> }

NoId == <<0, 0>>

HumanMessage(text) ==
    [type |-> "human", content |-> text, tool_calls |-> <<>>, tool_call_id |-> NoId]

\* The k-th reply of the model: its text is identified by k, its requests get the
\* conversation-unique ids <<k, 1>>, <<k, 2>>, ...
AIMessage(k, names) ==
    [type |-> "ai", content |-> <<"text", k>>,
     tool_calls |-> [i \in 1..Len(names) |-> [name |-> names[i], id |-> <<k, i>>]],
     tool_call_id |-> NoId]

ToolMessage(content, id) ==
    [type |-> "tool", content |-> content, tool_calls |-> <<>>, tool_call_id |-> id]

NotFound(name) == <<"Error: Tool not found", name>>

NoResp == [type |-> "none", content |-> <<>>, tool_calls |-> <<>>, tool_call_id |-> NoId]
NoOutcome == [kind |-> "none", by |-> "none", content |-> <<>>]

\* PerformanceMonitor.__init__: no query, no tool call, no error logged.
NewMonitor == [query_count |-> 0, tool_calls |-> <<>>, errors |-> 0]

\* PerformanceMonitor.log_query
log_query(m) == [m EXCEPT !.query_count = @ + 1]

\* Mutant of log_tool_call: the list of the name is replaced, not appended to.
log_tool_call_Overwrites(m, name) ==
    [m EXCEPT !.tool_calls = IF name \in DOMAIN m.tool_calls
                             THEN [m.tool_calls EXCEPT ![name] = 1]
                             ELSE m.tool_calls @@ (name :> 1)]

\* PerformanceMonitor.log_tool_call: one more duration in the list kept for the name
\* (the list is modelled by its length).
log_tool_call(m, name) ==
    [m EXCEPT !.tool_calls = IF name \in DOMAIN m.tool_calls
                             THEN [m.tool_calls EXCEPT ![name] = @ + 1]
                             ELSE m.tool_calls @@ (name :> 1)]

\* sum(len(v) for v in self.tool_calls.values()), as get_stats computes it.
RECURSIVE SumOver(_, _)
SumOver(f, S) ==
    IF S = {} THEN 0
    ELSE LET x == CHOOSE y \in S : TRUE IN f[x] + SumOver(f, S \ {x})

total_tool_calls(m) == SumOver(m.tool_calls, DOMAIN m.tool_calls)

LoopInit ==
    /\ driver \in Drivers
    /\ pc = "model"
    /\ iteration = 0
    /\ msgs = << HumanMessage(<<"query">>) >>
    /\ resp = NoResp
    /\ tcIdx = 0
    /\ tool_calls = <<>>
    /\ outcome = NoOutcome
    /\ modelCalls = 0
    /\ monitor = log_query(NewMonitor)

\* `while iteration < max_iterations:` (process_query) / `while True:` (main.py)
LoopGuard == IF HasBudget(driver) THEN iteration < max_iterations ELSE TRUE

\* `iteration += 1` exists in process_query only.
NextIteration == IF HasBudget(driver) THEN iteration + 1 ELSE iteration

\* Mutant of ModelRaises: the loop swallows the error and calls the model again.
ModelRaises_Retried ==
    /\ pc = "model" /\ LoopGuard /\ modelCalls < MaxModelCalls
    /\ iteration' = NextIteration
    /\ modelCalls' = modelCalls + 1
    /\ pc' = "model"
    /\ outcome' = [kind |-> "raised", by |-> "model", content |-> <<"model error", modelCalls + 1>>]
    /\ UNCHANGED <<driver, msgs, resp, tcIdx, tool_calls, monitor>>

\* await agent.ainvoke(msgs) raises: nothing catches it inside the loop function.
ModelRaises ==
    /\ pc = "model" /\ LoopGuard /\ modelCalls < MaxModelCalls
    /\ iteration' = NextIteration
    /\ modelCalls' = modelCalls + 1
    /\ pc' = "raised"
    /\ outcome' = [kind |-> "raised", by |-> "model", content |-> <<"model error", modelCalls + 1>>]
    /\ UNCHANGED <<driver, msgs, resp, tcIdx, tool_calls, monitor>>

\* agent.ainvoke returns a message without tool calls: append, break, return resp.content.
ModelFinal ==
    /\ pc = "model" /\ LoopGuard /\ modelCalls < MaxModelCalls
    /\ iteration' = NextIteration
    /\ modelCalls' = modelCalls + 1
    /\ resp' = AIMessage(modelCalls + 1, <<>>)
    /\ msgs' = Append(msgs, resp')
    /\ pc' = "returned"
    /\ outcome' = [kind |-> "answer", by |-> "loop", content |-> resp'.content]
    /\ UNCHANGED <<driver, tcIdx, tool_calls, monitor>>

\* agent.ainvoke returns a message with tool calls: append it and enter the for loop.
ModelRequestsTools ==
    /\ pc = "model" /\ LoopGuard /\ modelCalls < MaxModelCalls
    /\ \E names \in ReqLists :
          /\ resp' = AIMessage(modelCalls + 1, names)
          /\ msgs' = Append(msgs, resp')
    /\ iteration' = NextIteration
    /\ modelCalls' = modelCalls + 1
    /\ pc' = "tools"
    /\ tcIdx' = 1
    /\ UNCHANGED <<driver, tool_calls, outcome, monitor>>

\* The request the for loop is at.
tc == resp.tool_calls[tcIdx]

\* Mutant of Advance: the for loop skips the request after the current one.
Advance_SkipsRequest ==
    IF tcIdx + 1 < Len(resp.tool_calls)
    THEN /\ tcIdx' = tcIdx + 2
         /\ UNCHANGED <<pc, outcome>>
    ELSE /\ tcIdx' = 0
         /\ IF HasBudget(driver) /\ ~(iteration < max_iterations)
            THEN /\ pc' = "returned"
                 /\ outcome' = [kind |-> "answer", by |-> "loop", content |-> resp.content]
            ELSE /\ pc' = "model"
                 /\ UNCHANGED outcome

\* After one request is done: the next request of the turn, or back to the loop
\* head; process_query leaves its while loop there when the budget is used up and
\* executes `return resp.content, tool_calls, ...`.
Advance ==
    IF tcIdx < Len(resp.tool_calls)
    THEN /\ tcIdx' = tcIdx + 1
         /\ UNCHANGED <<pc, outcome>>
    ELSE /\ tcIdx' = 0
         /\ IF HasBudget(driver) /\ ~(iteration < max_iterations)
            THEN /\ pc' = "returned"
                 /\ outcome' = [kind |-> "answer", by |-> "loop", content |-> resp.content]
            ELSE /\ pc' = "model"
                 /\ UNCHANGED outcome

\* Mutant of RecordResult: the trace record is inserted at the front of the trace.
RecordResult_TracePrepended(result) ==
    /\ tool_calls' = IF HasTrace(driver)
                     THEN <<[name |-> tc.name]>> \o tool_calls
                     ELSE tool_calls
    /\ monitor' = log_tool_call(monitor, tc.name)
    /\ msgs' = Append(msgs, ToolMessage(result, tc.id))
    /\ Advance
    /\ UNCHANGED <<driver, iteration, resp, modelCalls>>

\* Bookkeeping after a result was obtained: trace record, monitor, ToolMessage with the id.
RecordResult(result) ==
    /\ tool_calls' = IF HasTrace(driver)
                     THEN Append(tool_calls, [name |-> tc.name])
                     ELSE tool_calls
    /\ monitor' = log_tool_call(monitor, tc.name)
    /\ msgs' = Append(msgs, ToolMessage(result, tc.id))
    /\ Advance
    /\ UNCHANGED <<driver, iteration, resp, modelCalls>>

\* tool = tool_map.get(name); await tool.ainvoke(args) returns.
ToolReturns ==
    /\ pc = "tools" /\ tc.name \in tool_map
    /\ RecordResult(<<"result", tc.name>>)

\* tool = tool_map.get(name); await tool.ainvoke(args) raises (the tool fails, times
\* out, ...): the loops have no try/except around it.
ToolRaises ==
    /\ pc = "tools" /\ tc.name \in tool_map
    /\ pc' = "raised"
    /\ outcome' = [kind |-> "raised", by |-> "tool", content |-> <<"tool error", tc.id>>]
    /\ UNCHANGED <<driver, iteration, msgs, resp, tcIdx, tool_calls, modelCalls, monitor>>

\* Mutant of ToolUnknown: `tool_map[tool_name]` instead of `.get`, a KeyError leaves the loop.
ToolUnknown_KeyError ==
    /\ pc = "tools" /\ tc.name \notin tool_map
    /\ pc' = "raised"
    /\ outcome' = [kind |-> "raised", by |-> "tool", content |-> <<"KeyError", tc.id>>]
    /\ UNCHANGED <<driver, iteration, msgs, resp, tcIdx, tool_calls, modelCalls, monitor>>

\* tool_map.get(name) is None: result = f"Error: Tool {tool_name} not found".
ToolUnknown ==
    /\ pc = "tools" /\ tc.name \notin tool_map
    /\ RecordResult(NotFound(tc.name))

----------------------------------------------------------------------------
(* The circuit breaker *)

NoTime == -1

CBInit ==
    /\ state = "CLOSED"
    /\ failure_count = 0
    /\ success_count = 0
    /\ last_failure_time = NoTime
    /\ now = 0
    /\ inflight = [normal |-> 0, probe |-> 0]
    /\ invocations = 0
    /\ consecFailures = 0
    /\ probeSuccesses = 0
    /\ ev = [op |-> "init", pre |-> "CLOSED", sc |-> 0]

\* Calls suspended in `await func(...)`.
InFlightTotal == inflight.normal + inflight.probe

\* Mutant of RecoveryDue: `>` instead of `>=`.
RecoveryDue_Strict == now - last_failure_time > recovery_timeout

\* `time.time() - self.last_failure_time >= self.recovery_timeout`
RecoveryDue == now - last_failure_time >= recovery_timeout

\* Mutant of is_open: a second probe is refused while one is pending.
is_open_SingleProbe ==
    \/ state = "OPEN" /\ ~RecoveryDue
    \/ state = "HALF_OPEN" /\ inflight.probe > 0

\* Mutant of is_open: the `return True` of the OPEN branch is missing.
is_open_NeverTrue == FALSE

\* Return value of is_open(): True only when OPEN and recovery is not yet due.
is_open == state = "OPEN" /\ ~RecoveryDue

\* Mutant of is_open_effect: the OPEN -> HALF_OPEN assignment is missing.
is_open_effect_NoRecovery == UNCHANGED <<state, success_count>>

\* Side effect of is_open(): the lazy OPEN -> HALF_OPEN transition.
is_open_effect ==
    IF state = "OPEN" /\ RecoveryDue
    THEN state' = "HALF_OPEN" /\ success_count' = 0
    ELSE UNCHANGED <<state, success_count>>

\* Mutant of record_success: `self.failure_count = 0` is missing.
record_success_KeepsFailureCount ==
    /\ IF state = "HALF_OPEN"
       THEN /\ success_count' = success_count + 1
            /\ state' = IF success_count + 1 >= success_threshold THEN "CLOSED" ELSE state
       ELSE UNCHANGED <<success_count, state>>
    /\ UNCHANGED <<failure_count, last_failure_time>>

\* Mutant of record_success: `>` instead of `>=` in the threshold test.
record_success_StrictThreshold ==
    /\ failure_count' = 0
    /\ IF state = "HALF_OPEN"
       THEN /\ success_count' = success_count + 1
            /\ state' = IF success_count + 1 > success_threshold THEN "CLOSED" ELSE state
       ELSE UNCHANGED <<success_count, state>>
    /\ UNCHANGED last_failure_time

\* Mutant of record_success: failure_count is reset only while CLOSED.
record_success_ResetOnlyWhenClosed ==
    /\ failure_count' = IF state = "CLOSED" THEN 0 ELSE failure_count
    /\ IF state = "HALF_OPEN"
       THEN /\ success_count' = success_count + 1
            /\ state' = IF success_count + 1 >= success_threshold THEN "CLOSED" ELSE state
       ELSE UNCHANGED <<success_count, state>>
    /\ UNCHANGED last_failure_time

record_success ==
    /\ failure_count' = 0
    /\ IF state = "HALF_OPEN"
       THEN /\ success_count' = success_count + 1
            /\ state' = IF success_count + 1 >= success_threshold THEN "CLOSED" ELSE state
       ELSE UNCHANGED <<success_count, state>>
    /\ UNCHANGED last_failure_time

\* Mutant of record_failure: last_failure_time is set only when the breaker opens.
record_failure_TimerNotRestarted ==
    /\ failure_count' = failure_count + 1
    /\ last_failure_time' = IF state = "OPEN" THEN last_failure_time ELSE now
    /\ state' = IF state = "HALF_OPEN" THEN "OPEN"
                ELSE IF failure_count + 1 >= failure_threshold THEN "OPEN"
                ELSE state
    /\ UNCHANGED success_count

\* Mutant of record_failure: `>` instead of `>=` in the threshold test.
record_failure_StrictThreshold ==
    /\ failure_count' = failure_count + 1
    /\ last_failure_time' = now
    /\ state' = IF state = "HALF_OPEN" THEN "OPEN"
                ELSE IF failure_count + 1 > failure_threshold THEN "OPEN"
                ELSE state
    /\ UNCHANGED success_count

\* Mutant of record_failure: the HALF_OPEN branch is missing.
record_failure_NoHalfOpenBranch ==
    /\ failure_count' = failure_count + 1
    /\ last_failure_time' = now
    /\ state' = IF failure_count + 1 >= failure_threshold THEN "OPEN" ELSE state
    /\ UNCHANGED success_count

record_failure ==
    /\ failure_count' = failure_count + 1
    /\ last_failure_time' = now
    /\ state' = IF state = "HALF_OPEN" THEN "OPEN"
                ELSE IF failure_count + 1 >= failure_threshold THEN "OPEN"
                ELSE state
    /\ UNCHANGED success_count

Event(op) == [op |-> op, pre |-> state, sc |-> success_count]

\* call(): is_open() is True, `raise Exception("Circuit breaker is OPEN ...")`.
CallRejected ==
    /\ is_open
    /\ ev' = Event("reject")
    /\ UNCHANGED <<state, failure_count, success_count, last_failure_time, now, inflight,
                   invocations, consecFailures, probeSuccesses>>

\* call(): is_open() is False, the wrapped function is invoked and the coroutine
\* suspends in `await func(...)`.
CallAdmitted ==
    /\ ~is_open
    /\ InFlightTotal < MaxInFlight /\ invocations < MaxInvocations
    /\ is_open_effect
    /\ invocations' = invocations + 1
    /\ inflight' = IF state' = "HALF_OPEN"
                   THEN [inflight EXCEPT !.probe = @ + 1]
                   ELSE [inflight EXCEPT !.normal = @ + 1]
    /\ probeSuccesses' = IF state = "OPEN" THEN 0 ELSE probeSuccesses
    /\ ev' = Event("admit")
    /\ UNCHANGED <<failure_count, last_failure_time, now, consecFailures>>

\* call(): `await func(...)` returns, record_success(), return result.
FuncSucceeds ==
    \E k \in {"normal", "probe"} :
        /\ inflight[k] > 0
        /\ inflight' = [inflight EXCEPT ![k] = @ - 1]
        /\ record_success
        /\ consecFailures' = 0
        /\ probeSuccesses' = IF k = "probe" /\ state = "HALF_OPEN"
                             THEN probeSuccesses + 1 ELSE probeSuccesses
        /\ ev' = Event("success")
        /\ UNCHANGED <<now, invocations>>

\* call(): `await func(...)` raises, record_failure(), re-raise.
FuncFails ==
    \E k \in {"normal", "probe"} :
        /\ inflight[k] > 0
        /\ inflight' = [inflight EXCEPT ![k] = @ - 1]
        /\ record_failure
        /\ consecFailures' = consecFailures + 1
        /\ ev' = Event("failure")
        /\ UNCHANGED <<now, invocations, probeSuccesses>>

\* call() admitted as in CallAdmitted, for runs in which calls never stop being
\* attempted (the history counter `invocations` is not kept).
CallAdmittedAgain ==
    /\ ~is_open
    /\ InFlightTotal < MaxInFlight
    /\ is_open_effect
    /\ inflight' = IF state' = "HALF_OPEN"
                   THEN [inflight EXCEPT !.probe = @ + 1]
                   ELSE [inflight EXCEPT !.normal = @ + 1]
    /\ probeSuccesses' = IF state = "OPEN" THEN 0 ELSE probeSuccesses
    /\ ev' = Event("admit")
    /\ UNCHANGED <<failure_count, last_failure_time, now, consecFailures, invocations>>

\* The last moment at which the wrapped function may still fail in the runs of
\* SpecCBLive; from then on it always succeeds.
FailuresStopAt == MaxTime - recovery_timeout - TickStep

\* call(): `await func(...)` raises, while the wrapped function still fails.
FuncFailsEarly == now <= FailuresStopAt /\ FuncFails

\* time.time() advances.
Tick ==
    /\ now + TickStep <= MaxTime
    /\ now' = now + TickStep
    /\ ev' = Event("tick")
    /\ UNCHANGED <<state, failure_count, success_count, last_failure_time, inflight,
                   invocations, consecFailures, probeSuccesses>>

----------------------------------------------------------------------------
(* retry_with_backoff *)

\* RetryConfig defaults.
default_max_attempts == 3
default_initial_delay == 1
default_backoff_factor == 2
default_max_delay == 30

DefaultRetryConfig ==
    [max_attempts |-> default_max_attempts, initial_delay |-> default_initial_delay,
     backoff_factor |-> default_backoff_factor, max_delay |-> default_max_delay]

\* The configurations tried: the defaults, an initial delay that reaches the cap
\* after two doublings, and one that is above the cap from the start.
RetryConfigs ==
    [max_attempts : -1..MaxAttempts, initial_delay : {default_initial_delay, 8, 40},
     backoff_factor : {1, default_backoff_factor, 3}, max_delay : {default_max_delay}]

Min(a, b) == IF a <= b THEN a ELSE b

NoException == <<"None">>
NoResult == [kind |-> "none", value |-> <<>>]

\* retry_with_backoff is not running.
RetryIdle ==
    /\ config = DefaultRetryConfig
    /\ rpc = "idle"
    /\ attempt = 0
    /\ delay = 0
    /\ last_exception = NoException
    /\ retry_result = NoResult
    /\ sleeps = <<>>
    /\ attempts_made = <<>>

\* retry_with_backoff was called: `last_exception = None; delay = config.initial_delay`.
RetryInit ==
    /\ config \in RetryConfigs
    /\ rpc = "loop"
    /\ attempt = 0
    /\ delay = config.initial_delay
    /\ last_exception = NoException
    /\ retry_result = NoResult
    /\ sleeps = <<>>
    /\ attempts_made = <<>>

\* `for attempt in range(1, config.max_attempts + 1)` has another iteration.
HasNextAttempt == attempt + 1 <= config.max_attempts

\* Mutant of RetryAttemptReturns: the value is kept but the loop is not left.
RetryAttemptReturns_NoReturn ==
    /\ rpc = "loop" /\ HasNextAttempt
    /\ attempt' = attempt + 1
    /\ attempts_made' = Append(attempts_made, "ok")
    /\ retry_result' = [kind |-> "value", value |-> <<"value", attempt + 1>>]
    /\ UNCHANGED <<config, rpc, delay, last_exception, sleeps>>

\* `return await func(*args, **kwargs)`: func returns.
RetryAttemptReturns ==
    /\ rpc = "loop" /\ HasNextAttempt
    /\ attempt' = attempt + 1
    /\ attempts_made' = Append(attempts_made, "ok")
    /\ rpc' = "returned"
    /\ retry_result' = [kind |-> "value", value |-> <<"value", attempt + 1>>]
    /\ UNCHANGED <<config, delay, last_exception, sleeps>>

\* Mutant of RetryAttemptRaises: the last-attempt test comes after the sleep.
RetryAttemptRaises_SleepsFirst ==
    /\ rpc = "loop" /\ HasNextAttempt
    /\ attempt' = attempt + 1
    /\ attempts_made' = Append(attempts_made, "err")
    /\ last_exception' = <<"exc", attempt + 1>>
    /\ sleeps' = Append(sleeps, delay)
    /\ IF attempt + 1 = config.max_attempts
       THEN /\ rpc' = "raised"
            /\ retry_result' = [kind |-> "raised", value |-> <<"exc", attempt + 1>>]
       ELSE /\ rpc' = "sleep"
            /\ UNCHANGED retry_result
    /\ UNCHANGED <<config, delay>>

\* func raises: `last_exception = e`; on the last attempt `raise`, otherwise
\* `await asyncio.sleep(delay)` begins.
RetryAttemptRaises ==
    /\ rpc = "loop" /\ HasNextAttempt
    /\ attempt' = attempt + 1
    /\ attempts_made' = Append(attempts_made, "err")
    /\ last_exception' = <<"exc", attempt + 1>>
    /\ IF attempt + 1 = config.max_attempts
       THEN /\ rpc' = "raised"
            /\ retry_result' = [kind |-> "raised", value |-> <<"exc", attempt + 1>>]
            /\ UNCHANGED sleeps
       ELSE /\ rpc' = "sleep"
            /\ sleeps' = Append(sleeps, delay)
            /\ UNCHANGED retry_result
    /\ UNCHANGED <<config, delay>>

\* asyncio.sleep returns: `delay = min(delay * config.backoff_factor, config.max_delay)`.
RetrySleepDone ==
    /\ rpc = "sleep"
    /\ delay' = Min(delay * config.backoff_factor, config.max_delay)
    /\ rpc' = "loop"
    /\ UNCHANGED <<config, attempt, last_exception, retry_result, sleeps, attempts_made>>

\* Mutant of RetryLoopEnds: the function falls off its end and returns None.
RetryLoopEnds_ReturnsNone ==
    /\ rpc = "loop" /\ ~(attempt + 1 <= config.max_attempts)
    /\ rpc' = "returned"
    /\ retry_result' = [kind |-> "returned", value |-> <<"None">>]
    /\ UNCHANGED <<config, attempt, delay, last_exception, sleeps, attempts_made>>

\* The for loop ends without having returned or raised (max_attempts <= 0):
\* `raise last_exception` with last_exception = None is a TypeError.
RetryLoopEnds ==
    /\ rpc = "loop" /\ ~HasNextAttempt
    /\ rpc' = "raised"
    /\ retry_result' = [kind |-> "raised",
                        value |-> IF last_exception = NoException
                                  THEN <<"TypeError">> ELSE last_exception]
    /\ UNCHANGED <<config, attempt, delay, last_exception, sleeps, attempts_made>>

----------------------------------------------------------------------------
(* FallbackHandler *)

\* The tool names get_fallback is applied to.
FallbackToolNames == tool_map \cup {"get_latest_news", "nonexistent_tool"}

\* `word in tool_name` for the words _get_demo_data looks for.
Mentions(tool_name, word) ==
    \/ tool_name = "get_fighter_stats" /\ word = "fighter_stats"
    \/ tool_name = "get_fight_odds" /\ word = "odds"
    \/ tool_name = "get_latest_news" /\ word = "news"

\* FallbackHandler._get_demo_data
get_demo_data(tool_name) ==
    IF Mentions(tool_name, "fighter_stats")
    THEN [name |-> "Unknown Fighter", record |-> "N/A", note |-> "Fighter data unavailable"]
    ELSE IF Mentions(tool_name, "odds")
    THEN [odds |-> "N/A", note |-> "Betting data unavailable"]
    ELSE IF Mentions(tool_name, "news")
    THEN [articles |-> <<>>, note |-> "News data unavailable"]
    ELSE [note |-> "Data unavailable"]

\* FallbackHandler.get_fallback
get_fallback(tool_name, error) ==
    [error |-> error, fallback |-> TRUE, tool |-> tool_name,
     message |-> <<"Tool", tool_name, "unavailable. Using fallback data.">>,
     data |-> get_demo_data(tool_name)]

----------------------------------------------------------------------------
(* Building the tool registry *)

\* The servers whose tools are loaded.
ToolServers == {"boxing_analytics", "betting_odds"}

\* A loaded tool: its name and the server that declares it.
LoadedTools == [name : tool_map, server : ToolServers]

\* The lists client.get_tools() may return.
ToolLists == UNION { [1..n -> LoadedTools] : n \in 0..MaxTools }

PlatformIdle ==
    /\ ipc = "start"
    /\ tools = <<>>
    /\ platform_tool_map = <<>>

\* `tools = await client.get_tools()`
GetTools ==
    /\ ipc = "start"
    /\ tools' \in ToolLists
    /\ ipc' = "loaded"
    /\ UNCHANGED platform_tool_map

\* The names occurring in a list of tools.
NamesIn(ts) == { ts[i].name : i \in 1..Len(ts) }

\* The position of the last tool of the list with the name.
LastIndexOf(ts, n) ==
    CHOOSE i \in 1..Len(ts) : ts[i].name = n /\ \A j \in (i + 1)..Len(ts) : ts[j].name # n

\* `tool_map = {t.name: t for t in tools}`: a later tool replaces an earlier one of
\* the same name; nothing is raised.
BuildToolMap ==
    /\ ipc = "loaded"
    /\ platform_tool_map' = [n \in NamesIn(tools) |-> tools[LastIndexOf(tools, n)]]
    /\ ipc' = "returned"
    /\ UNCHANGED tools

----------------------------------------------------------------------------
(* The registry of circuit breakers *)

ServerNames == {"boxing_analytics", "betting_odds", "fight_news"}

\* CircuitBreaker.__init__
NewCircuitBreaker ==
    [state |-> "CLOSED", failure_count |-> 0, success_count |-> 0,
     last_failure_time |-> NoTime]

\* record_success applied to the object b.
AfterRecordSuccess(b) ==
    IF b.state = "HALF_OPEN"
    THEN [b EXCEPT !.failure_count = 0,
                   !.success_count = b.success_count + 1,
                   !.state = IF b.success_count + 1 >= success_threshold
                             THEN "CLOSED" ELSE b.state]
    ELSE [b EXCEPT !.failure_count = 0]

\* record_failure applied to the object b at time t.
AfterRecordFailure(b, t) ==
    [b EXCEPT !.failure_count = b.failure_count + 1,
              !.last_failure_time = t,
              !.state = IF b.state = "HALF_OPEN" THEN "OPEN"
                        ELSE IF b.failure_count + 1 >= failure_threshold THEN "OPEN"
                        ELSE b.state]

NoUse == [op |-> "none", name |-> "", ref |-> 0]

BreakersIdle ==
    /\ circuit_breakers = [n \in ServerNames |-> 0]
    /\ instances = <<>>
    /\ last_use = NoUse
    /\ recorded = 0

\* Mutant of get_circuit_breaker: a new CircuitBreaker on every call.
get_circuit_breaker_AlwaysCreates(server_name) ==
    /\ Len(instances) < MaxInstances
    /\ instances' = Append(instances, NewCircuitBreaker)
    /\ circuit_breakers' = [circuit_breakers EXCEPT ![server_name] = Len(instances) + 1]
    /\ last_use' = [op |-> "get", name |-> server_name, ref |-> Len(instances) + 1]
    /\ UNCHANGED recorded

\* get_circuit_breaker(server_name): create on a missing key, return the stored one.
get_circuit_breaker(server_name) ==
    /\ IF circuit_breakers[server_name] = 0
       THEN /\ instances' = Append(instances, NewCircuitBreaker)
            /\ circuit_breakers' =
                   [circuit_breakers EXCEPT ![server_name] = Len(instances) + 1]
       ELSE UNCHANGED <<instances, circuit_breakers>>
    /\ last_use' = [op |-> "get", name |-> server_name,
                    ref |-> circuit_breakers'[server_name]]
    /\ UNCHANGED recorded

GetCircuitBreaker == \E server_name \in ServerNames : get_circuit_breaker(server_name)

\* A caller that got the breaker of server_name records a success through it.
RecordSuccessThrough ==
    \E server_name \in ServerNames :
        /\ circuit_breakers[server_name] # 0
        /\ recorded < MaxRecorded
        /\ instances' = [instances EXCEPT ![circuit_breakers[server_name]] =
                                              AfterRecordSuccess(@)]
        /\ last_use' = [op |-> "record_success", name |-> server_name,
                        ref |-> circuit_breakers[server_name]]
        /\ recorded' = recorded + 1
        /\ UNCHANGED circuit_breakers

\* A caller that got the breaker of server_name records a failure through it.
RecordFailureThrough ==
    \E server_name \in ServerNames :
        /\ circuit_breakers[server_name] # 0
        /\ recorded < MaxRecorded
        /\ instances' = [instances EXCEPT ![circuit_breakers[server_name]] =
                                              AfterRecordFailure(@, now)]
        /\ last_use' = [op |-> "record_failure", name |-> server_name,
                        ref |-> circuit_breakers[server_name]]
        /\ recorded' = recorded + 1
        /\ UNCHANGED circuit_breakers

----------------------------------------------------------------------------
(* call_with_timeout under CircuitBreaker.call under retry_with_backoff *)

\* The exceptions an attempt can end with: raised by the wrapped function, by
\* asyncio.wait_for at the deadline, by call() when the breaker is open, or the
\* cancellation of the awaiting task.
Raisable == {"ValueError", "TimeoutError", "Exception", "CancelledError"}

\* Mutant of IsException: the handlers name the errors of the wrapped function only.
IsException_FunctionErrorsOnly(e) == e \in {"ValueError"}

\* `except Exception`: asyncio.TimeoutError and the errors of the wrapped function are
\* Exceptions, asyncio.CancelledError is a BaseException only.
IsException(e) == e \in {"ValueError", "TimeoutError", "Exception"}

\* The breakers a timed call may find: new, or CLOSED one failure from opening.
TimedBreakers ==
    { NewCircuitBreaker,
      [NewCircuitBreaker EXCEPT !.failure_count = failure_threshold - 1,
                                !.last_failure_time = 0] }

TimedConfigs ==
    [timeout : 1..MaxTimeout,
     retry : {[DefaultRetryConfig EXCEPT !.max_attempts = m] : m \in 1..MaxTimedAttempts}]

NoTimedEvent == [exc |-> "none", attempt |-> 0, elapsed |-> 0, caught |-> FALSE]

TimedIdle ==
    /\ tconfig = [timeout |-> 1, retry |-> DefaultRetryConfig]
    /\ tpc = "idle"
    /\ tattempt = 0
    /\ tdelay = 0
    /\ telapsed = 0
    /\ tnow = 0
    /\ tbreaker = NewCircuitBreaker
    /\ toutcome = NoResult
    /\ tev = NoTimedEvent

TimedInit ==
    /\ tconfig \in TimedConfigs
    /\ tpc = "loop"
    /\ tattempt = 0
    /\ tdelay = tconfig.retry.initial_delay
    /\ telapsed = 0
    /\ tnow = 0
    /\ tbreaker \in TimedBreakers
    /\ toutcome = NoResult
    /\ tev = NoTimedEvent

\* is_open() applied to the object b at time t: the value returned.
IsOpenAt(b, t) == b.state = "OPEN" /\ ~(t - b.last_failure_time >= recovery_timeout)

\* is_open() applied to the object b at time t: the object afterwards.
AfterIsOpen(b, t) ==
    IF b.state = "OPEN" /\ t - b.last_failure_time >= recovery_timeout
    THEN [b EXCEPT !.state = "HALF_OPEN", !.success_count = 0]
    ELSE b

\* retry_with_backoff's handler for the exception e that ended attempt a:
\* `except Exception` stores it and either re-raises (last attempt) or sleeps;
\* anything else leaves retry_with_backoff at once.
RetryHandles(e, a) ==
    /\ IF IsException(e) /\ a < tconfig.retry.max_attempts
       THEN tpc' = "sleep" /\ UNCHANGED toutcome
       ELSE tpc' = "raised" /\ toutcome' = [kind |-> "raised", value |-> <<e>>]
    /\ tev' = [exc |-> e, attempt |-> a, elapsed |-> telapsed, caught |-> IsException(e)]

\* The exception e leaves `await func(...)` inside CircuitBreaker.call:
\* `except Exception: self.record_failure(); raise`, then retry's handler.
Propagates(e) ==
    /\ tbreaker' = IF IsException(e) THEN AfterRecordFailure(tbreaker, tnow) ELSE tbreaker
    /\ RetryHandles(e, tattempt)
    /\ UNCHANGED <<tconfig, tattempt, tdelay, telapsed, tnow>>

\* An attempt begins and call() finds the breaker open: it raises Exception before
\* invoking anything.
TimedAttemptRejected ==
    /\ tpc = "loop" /\ tattempt + 1 <= tconfig.retry.max_attempts
    /\ IsOpenAt(tbreaker, tnow)
    /\ tattempt' = tattempt + 1
    /\ telapsed' = 0
    /\ RetryHandles("Exception", tattempt + 1)
    /\ UNCHANGED <<tconfig, tdelay, tnow, tbreaker>>

\* An attempt begins: call() passes is_open() and awaits call_with_timeout, which
\* awaits asyncio.wait_for(func(...), timeout).
TimedAttemptStarts ==
    /\ tpc = "loop" /\ tattempt + 1 <= tconfig.retry.max_attempts
    /\ ~IsOpenAt(tbreaker, tnow)
    /\ tbreaker' = AfterIsOpen(tbreaker, tnow)
    /\ tattempt' = tattempt + 1
    /\ telapsed' = 0
    /\ tpc' = "await"
    /\ UNCHANGED <<tconfig, tdelay, tnow, toutcome, tev>>

\* One second passes with the wrapped function still running.
TimedFuncRuns ==
    /\ tpc = "await" /\ telapsed < tconfig.timeout
    /\ telapsed' = telapsed + 1
    /\ tnow' = tnow + 1
    /\ UNCHANGED <<tconfig, tpc, tattempt, tdelay, tbreaker, toutcome, tev>>

\* The wrapped function returns before the deadline: record_success, and
\* retry_with_backoff returns the result.
TimedFuncReturns ==
    /\ tpc = "await" /\ telapsed < tconfig.timeout
    /\ tbreaker' = AfterRecordSuccess(tbreaker)
    /\ tpc' = "returned"
    /\ toutcome' = [kind |-> "returned", value |-> <<"result", tattempt>>]
    /\ UNCHANGED <<tconfig, tattempt, tdelay, telapsed, tnow, tev>>

\* The wrapped function raises, or the awaiting task is cancelled, before the deadline.
TimedFuncRaises ==
    /\ tpc = "await" /\ telapsed < tconfig.timeout
    /\ \E e \in {"ValueError", "CancelledError"} : Propagates(e)

\* The deadline passes: asyncio.wait_for cancels func and raises TimeoutError.
DeadlineExpires ==
    /\ tpc = "await" /\ telapsed = tconfig.timeout
    /\ Propagates("TimeoutError")

\* asyncio.sleep(delay) returns: `delay = min(delay * backoff_factor, max_delay)`.
TimedSleepDone ==
    /\ tpc = "sleep"
    /\ tnow' = tnow + tdelay
    /\ tdelay' = Min(tdelay * tconfig.retry.backoff_factor, tconfig.retry.max_delay)
    /\ tpc' = "loop"
    /\ UNCHANGED <<tconfig, tattempt, telapsed, tbreaker, toutcome, tev>>

----------------------------------------------------------------------------
(* The process-wide monitor *)

\* PerformanceMonitor.log_error (the list of errors is modelled by its length).
log_error(m) == [m EXCEPT !.errors = @ + 1]

\* PerformanceMonitor.get_stats, without the clock-dependent entries.
get_stats(m) ==
    [total_queries |-> m.query_count,
     total_tool_calls |-> total_tool_calls(m),
     tool_breakdown |-> [n \in DOMAIN m.tool_calls |-> [count |-> m.tool_calls[n]]],
     errors |-> m.errors]

NoTally == [queries |-> 0, calls |-> [n \in tool_map |-> 0], errors |-> 0]

MonitorIdle ==
    /\ global_monitor = 0
    /\ monitor_objects = <<>>
    /\ local_monitor = 0
    /\ tally = <<>>
    /\ mon_ev = [op |-> "none", ref |-> 0]
    /\ mon_ops = 0
    /\ resets = 0

\* get_monitor(): the objects after the call (one more when `_monitor is None`).
ObjectsAfterGet ==
    IF global_monitor = 0 THEN Append(monitor_objects, NewMonitor) ELSE monitor_objects

TallyAfterGet == IF global_monitor = 0 THEN Append(tally, NoTally) ELSE tally

\* get_monitor(): the reference returned.
get_monitor == IF global_monitor = 0 THEN Len(monitor_objects) + 1 ELSE global_monitor

\* `monitor = get_monitor()`
GetMonitor ==
    /\ monitor_objects' = ObjectsAfterGet
    /\ tally' = TallyAfterGet
    /\ global_monitor' = get_monitor
    /\ local_monitor' = get_monitor
    /\ mon_ev' = [op |-> "get", ref |-> get_monitor]
    /\ UNCHANGED <<mon_ops, resets>>

\* The ways a caller reaches a monitor: `get_monitor().log_...(...)` as in
\* frontend/app.py, or through the local assigned earlier as in main.py.
Via == {"get_monitor", "local"}

\* The object a log operation acts on.
Target(via) == IF via = "get_monitor" THEN get_monitor ELSE local_monitor

\* The object after the log operation `op` (with tool name `name`) on m.
Applied(op, name, m) ==
    IF op = "log_query" THEN log_query(m)
    ELSE IF op = "log_tool_call" THEN log_tool_call(m, name)
    ELSE log_error(m)

\* The tally after the log operation.
Counted(op, name, t) ==
    IF op = "log_query" THEN [t EXCEPT !.queries = @ + 1]
    ELSE IF op = "log_tool_call" THEN [t EXCEPT !.calls[name] = @ + 1]
    ELSE [t EXCEPT !.errors = @ + 1]

\* A log operation made by a caller on the monitor it reaches.
Logs(via, op, name) ==
    /\ mon_ops < MaxLogged
    /\ via = "local" => local_monitor # 0
    /\ LET objs == IF via = "get_monitor" THEN ObjectsAfterGet ELSE monitor_objects
           tal == IF via = "get_monitor" THEN TallyAfterGet ELSE tally
           ref == Target(via)
       IN /\ monitor_objects' = [objs EXCEPT ![ref] = Applied(op, name, @)]
          /\ tally' = [tal EXCEPT ![ref] = Counted(op, name, @)]
          /\ global_monitor' = IF via = "get_monitor" THEN ref ELSE global_monitor
          /\ mon_ev' = [op |-> op, ref |-> ref]
    /\ mon_ops' = mon_ops + 1
    /\ UNCHANGED <<local_monitor, resets>>

LogQuery == \E via \in Via : Logs(via, "log_query", "none")

LogToolCall == \E via \in Via, name \in tool_map : Logs(via, "log_tool_call", name)

LogError == \E via \in Via : Logs(via, "log_error", "none")

\* Mutant of ResetMonitor: the global keeps its object.
ResetMonitor_KeepsObject ==
    /\ resets < MaxResets
    /\ resets' = resets + 1
    /\ mon_ev' = [op |-> "reset", ref |-> global_monitor]
    /\ UNCHANGED <<global_monitor, monitor_objects, local_monitor, tally, mon_ops>>

\* reset_monitor(): `_monitor = PerformanceMonitor()`
ResetMonitor ==
    /\ resets < MaxResets
    /\ resets' = resets + 1
    /\ monitor_objects' = Append(monitor_objects, NewMonitor)
    /\ tally' = Append(tally, NoTally)
    /\ global_monitor' = Len(monitor_objects) + 1
    /\ mon_ev' = [op |-> "reset", ref |-> Len(monitor_objects) + 1]
    /\ UNCHANGED <<local_monitor, mon_ops>>

----------------------------------------------------------------------------
(* The MCP servers *)

Providers == {"boxing_odds", "boxing_news"}

\* The tools list_tools() declares.
ToolsOf(p) ==
    IF p = "boxing_odds"
    THEN {"get_fight_odds", "get_odds_movement", "calculate_betting_value",
          "get_betting_trends", "predict_fight_outcome"}
    ELSE {"get_fight_news", "get_social_buzz", "compare_fighter_hype",
          "get_fight_predictions", "analyze_press_conference"}

\* The tools whose code path calls validate_api_key / validate_news_api_key.
NeedsSecret(p, name) ==
    IF p = "boxing_odds" THEN name \in ToolsOf(p)
    ELSE name \in {"get_fight_news", "compare_fighter_hype"}

\* The arguments call_tool reads with `arguments[...]`.
RequiredFields(p, name) ==
    IF name \in {"get_fight_news"} THEN {}
    ELSE IF name \in {"get_social_buzz", "analyze_press_conference"} THEN {"fighter_name"}
    ELSE IF name = "calculate_betting_value" THEN {"fighter_name", "opponent"}
    ELSE {"fighter1", "fighter2"}

\* The requests tried: declared and undeclared names, arguments given as the set
\* of their keys.
RequestNames == ToolsOf("boxing_odds") \cup ToolsOf("boxing_news") \cup {"nonexistent_tool"}
ArgumentSets ==
    { {}, {"fighter1"}, {"fighter1", "fighter2"}, {"fighter_name"},
      {"fighter_name", "opponent"} }

\* What the remote API does when it is reached.
Upstreams == {"ok", "HTTPError", "not_found", "bad_payload"}

NoRaise == [exc |-> "none", error |-> "none"]

\* The fetch with the key present: httpx.HTTPError and a fight not found are turned
\* into ValueError; a payload without the expected keys raises KeyError.
Fetch(p, upstream) ==
    IF upstream = "ok" THEN NoRaise
    ELSE IF upstream = "HTTPError" THEN [exc |-> "ValueError", error |-> "fetch_failed"]
    ELSE IF upstream = "not_found" /\ p = "boxing_odds"
    THEN [exc |-> "ValueError", error |-> "not_found"]
    ELSE IF upstream = "bad_payload" THEN [exc |-> "KeyError", error |-> "bad_payload"]
    ELSE NoRaise

\* What the body of call_tool's try block raises in boxing_odds.py.
OddsRaises(secret, name, args, upstream) ==
    IF ~secret THEN [exc |-> "ValueError", error |-> "key_required"]
    ELSE IF name \notin ToolsOf("boxing_odds")
    THEN [exc |-> "ValueError", error |-> "unknown_tool"]
    ELSE IF ~(RequiredFields("boxing_odds", name) \subseteq args)
    THEN [exc |-> "KeyError", error |-> "missing_argument"]
    ELSE Fetch("boxing_odds", upstream)

\* What the body of call_tool's try block raises in boxing_news.py.
NewsRaises(secret, name, args, upstream) ==
    IF name \notin ToolsOf("boxing_news") THEN NoRaise
    ELSE IF ~(RequiredFields("boxing_news", name) \subseteq args)
    THEN [exc |-> "KeyError", error |-> "missing_argument"]
    ELSE IF ~NeedsSecret("boxing_news", name) THEN NoRaise
    ELSE IF ~secret THEN [exc |-> "ValueError", error |-> "key_required"]
    ELSE Fetch("boxing_news", upstream)

\* Mutant of Caught: the `except Exception` clause is missing.
Caught_ValueErrorOnly(exc) == exc = "ValueError"

\* `except ValueError` followed by `except Exception`.
Caught(exc) == exc \in {"ValueError", "KeyError"}

\* call_tool: the TextContent returned, or the exception that leaves it.
call_tool(p, secret, name, args, upstream) ==
    LET r == IF p = "boxing_odds" THEN OddsRaises(secret, name, args, upstream)
             ELSE NewsRaises(secret, name, args, upstream)
    IN IF r.exc = "none"
       THEN [kind |-> "result", error |-> IF name \in ToolsOf(p) THEN "none"
                                          ELSE "unknown_tool", tool |-> name]
       ELSE IF Caught(r.exc)
       THEN [kind |-> "error", error |-> r.error, tool |-> name]
       ELSE [kind |-> "raised", error |-> r.error, tool |-> name]

NotListed == {"not listed"}
NoRequest == [name |-> "none", arguments |-> {}, upstream |-> "ok"]
NoReply == [kind |-> "none", error |-> "none", tool |-> "none"]

ProviderIdle ==
    /\ provider = "none"
    /\ secret_set = FALSE
    /\ listed = NotListed
    /\ request = NoRequest
    /\ reply = NoReply

\* The server process starts: the key is read from the environment once.
ProviderInit ==
    /\ provider \in Providers
    /\ secret_set \in BOOLEAN
    /\ listed = NotListed
    /\ request = NoRequest
    /\ reply = NoReply

\* list_tools(): the fixed list, whatever the environment.
ListTools ==
    /\ listed' = ToolsOf(provider)
    /\ UNCHANGED <<provider, secret_set, request, reply>>

\* call_tool(name, arguments)
CallTool ==
    \E name \in RequestNames, args \in ArgumentSets, upstream \in Upstreams :
        /\ request' = [name |-> name, arguments |-> args, upstream |-> upstream]
        /\ reply' = call_tool(provider, secret_set, name, args, upstream)
        /\ UNCHANGED <<provider, secret_set, listed>>

----------------------------------------------------------------------------
Init == LoopInit /\ CBInit /\ RetryIdle /\ PlatformIdle /\ BreakersIdle /\ TimedIdle /\ MonitorIdle /\ ProviderIdle

Next ==
    \/ ModelRaises /\ UNCHANGED <<cbVars, retryVars, platformVars, breakersVars, timedVars, monitorVars, providerVars>>
    \/ ModelFinal /\ UNCHANGED <<cbVars, retryVars, platformVars, breakersVars, timedVars, monitorVars, providerVars>>
    \/ ModelRequestsTools /\ UNCHANGED <<cbVars, retryVars, platformVars, breakersVars, timedVars, monitorVars, providerVars>>
    \/ ToolReturns /\ UNCHANGED <<cbVars, retryVars, platformVars, breakersVars, timedVars, monitorVars, providerVars>>
    \/ ToolRaises /\ UNCHANGED <<cbVars, retryVars, platformVars, breakersVars, timedVars, monitorVars, providerVars>>
    \/ ToolUnknown /\ UNCHANGED <<cbVars, retryVars, platformVars, breakersVars, timedVars, monitorVars, providerVars>>

Spec == Init /\ [][Next]_vars

NextCB ==
    \/ CallRejected /\ UNCHANGED <<loopVars, retryVars, platformVars, breakersVars, timedVars, monitorVars, providerVars>>
    \/ CallAdmitted /\ UNCHANGED <<loopVars, retryVars, platformVars, breakersVars, timedVars, monitorVars, providerVars>>
    \/ FuncSucceeds /\ UNCHANGED <<loopVars, retryVars, platformVars, breakersVars, timedVars, monitorVars, providerVars>>
    \/ FuncFails /\ UNCHANGED <<loopVars, retryVars, platformVars, breakersVars, timedVars, monitorVars, providerVars>>
    \/ Tick /\ UNCHANGED <<loopVars, retryVars, platformVars, breakersVars, timedVars, monitorVars, providerVars>>

SpecCB == Init /\ [][NextCB]_vars

\* One circuit breaker whose wrapped function fails only up to FailuresStopAt, with
\* time advancing, calls being attempted again and again, and every pending call
\* completing.
LiveRejected == CallRejected /\ UNCHANGED <<loopVars, retryVars, platformVars, breakersVars, timedVars, monitorVars, providerVars>>
LiveAdmitted == CallAdmittedAgain /\ UNCHANGED <<loopVars, retryVars, platformVars, breakersVars, timedVars, monitorVars, providerVars>>
LiveSucceeds == FuncSucceeds /\ UNCHANGED <<loopVars, retryVars, platformVars, breakersVars, timedVars, monitorVars, providerVars>>
LiveFails == FuncFailsEarly /\ UNCHANGED <<loopVars, retryVars, platformVars, breakersVars, timedVars, monitorVars, providerVars>>
LiveTick == Tick /\ UNCHANGED <<loopVars, retryVars, platformVars, breakersVars, timedVars, monitorVars, providerVars>>

NextCBLive ==
    \/ LiveRejected
    \/ LiveAdmitted
    \/ LiveSucceeds
    \/ LiveFails
    \/ LiveTick

SpecCBLive ==
    /\ Init /\ [][NextCBLive]_vars
    /\ WF_vars(LiveTick) /\ WF_vars(LiveAdmitted) /\ WF_vars(LiveSucceeds)

\* One call of retry_with_backoff, for each configuration and each behaviour of func.
InitRetry == LoopInit /\ CBInit /\ RetryInit /\ PlatformIdle /\ BreakersIdle /\ TimedIdle /\ MonitorIdle /\ ProviderIdle

NextRetry ==
    \/ RetryAttemptReturns /\ UNCHANGED <<loopVars, cbVars, platformVars, breakersVars, timedVars, monitorVars, providerVars>>
    \/ RetryAttemptRaises /\ UNCHANGED <<loopVars, cbVars, platformVars, breakersVars, timedVars, monitorVars, providerVars>>
    \/ RetrySleepDone /\ UNCHANGED <<loopVars, cbVars, platformVars, breakersVars, timedVars, monitorVars, providerVars>>
    \/ RetryLoopEnds /\ UNCHANGED <<loopVars, cbVars, platformVars, breakersVars, timedVars, monitorVars, providerVars>>

SpecRetry == InitRetry /\ [][NextRetry]_vars

NextPlatform ==
    \/ GetTools /\ UNCHANGED <<loopVars, cbVars, retryVars, breakersVars, timedVars, monitorVars, providerVars>>
    \/ BuildToolMap /\ UNCHANGED <<loopVars, cbVars, retryVars, breakersVars, timedVars, monitorVars, providerVars>>

SpecPlatform == Init /\ [][NextPlatform]_vars

NextBreakers ==
    \/ GetCircuitBreaker /\ UNCHANGED <<loopVars, cbVars, retryVars, platformVars, timedVars, monitorVars, providerVars>>
    \/ RecordSuccessThrough /\ UNCHANGED <<loopVars, cbVars, retryVars, platformVars, timedVars, monitorVars, providerVars>>
    \/ RecordFailureThrough /\ UNCHANGED <<loopVars, cbVars, retryVars, platformVars, timedVars, monitorVars, providerVars>>

SpecBreakers == Init /\ [][NextBreakers]_vars

NextMonitor ==
    \/ GetMonitor /\ UNCHANGED <<loopVars, cbVars, retryVars, platformVars, breakersVars, timedVars, providerVars>>
    \/ LogQuery /\ UNCHANGED <<loopVars, cbVars, retryVars, platformVars, breakersVars, timedVars, providerVars>>
    \/ LogToolCall /\ UNCHANGED <<loopVars, cbVars, retryVars, platformVars, breakersVars, timedVars, providerVars>>
    \/ LogError /\ UNCHANGED <<loopVars, cbVars, retryVars, platformVars, breakersVars, timedVars, providerVars>>
    \/ ResetMonitor /\ UNCHANGED <<loopVars, cbVars, retryVars, platformVars, breakersVars, timedVars, providerVars>>

SpecMonitor == Init /\ [][NextMonitor]_vars

\* One MCP server, with and without its API key.
InitProvider ==
    /\ LoopInit /\ CBInit /\ RetryIdle /\ PlatformIdle /\ BreakersIdle /\ MonitorIdle
    /\ TimedIdle /\ ProviderInit

NextProvider ==
    \/ ListTools /\ UNCHANGED <<loopVars, cbVars, retryVars, platformVars, breakersVars, timedVars, monitorVars>>
    \/ CallTool /\ UNCHANGED <<loopVars, cbVars, retryVars, platformVars, breakersVars, timedVars, monitorVars>>

SpecProvider == InitProvider /\ [][NextProvider]_vars

\* One timed call through a breaker, retried.
InitTimed ==
    LoopInit /\ CBInit /\ RetryIdle /\ PlatformIdle /\ BreakersIdle /\ MonitorIdle /\ TimedInit
      /\ ProviderIdle

NextTimed ==
    \/ TimedAttemptRejected /\ UNCHANGED <<loopVars, cbVars, retryVars, platformVars, breakersVars, monitorVars, providerVars>>
    \/ TimedAttemptStarts /\ UNCHANGED <<loopVars, cbVars, retryVars, platformVars, breakersVars, monitorVars, providerVars>>
    \/ TimedFuncRuns /\ UNCHANGED <<loopVars, cbVars, retryVars, platformVars, breakersVars, monitorVars, providerVars>>
    \/ TimedFuncReturns /\ UNCHANGED <<loopVars, cbVars, retryVars, platformVars, breakersVars, monitorVars, providerVars>>
    \/ TimedFuncRaises /\ UNCHANGED <<loopVars, cbVars, retryVars, platformVars, breakersVars, monitorVars, providerVars>>
    \/ DeadlineExpires /\ UNCHANGED <<loopVars, cbVars, retryVars, platformVars, breakersVars, monitorVars, providerVars>>
    \/ TimedSleepDone /\ UNCHANGED <<loopVars, cbVars, retryVars, platformVars, breakersVars, monitorVars, providerVars>>

SpecTimed == InitTimed /\ [][NextTimed]_vars

----------------------------------------------------------------------------
(* Claims about the tool-calling loops (checked under Spec) *)

RunEnded == pc \in {"returned", "raised"}

\* C1: one run of the orchestration loop makes at most max_iterations calls to the
\* model endpoint, whatever the model answers.
C1_AtMostMaxIterationsModelCalls == modelCalls <= max_iterations

\* The run ended because the iteration budget ran out while the last assistant
\* message still requested tools.
BudgetUsedUpWithoutFinalAnswer ==
    /\ RunEnded
    /\ HasBudget(driver)
    /\ iteration >= max_iterations
    /\ Len(resp.tool_calls) > 0
    /\ outcome.by \notin {"model", "tool"}

\* C2: when the budget is used up without a final answer the run ends in an explicit
\* failure, never in a value returned like a normal answer.
C2_BudgetExhaustionIsFailure ==
    BudgetUsedUpWithoutFinalAnswer => outcome.kind = "raised"

\* C3: a tool invocation that fails never aborts the run: no run ends with the
\* exception of a tool.
C3_ToolFailureNeverAbortsRun == ~(pc = "raised" /\ outcome.by = "tool")

\* The for loop is at a request whose name is not in the registry.
AtUnknownTool == pc = "tools" /\ tc.name \notin tool_map

\* C9: a request for a tool name that is not in the registry does not crash the run:
\* a ToolResult with an error string and the request's id is appended, the loop
\* moves to the next request of the turn, and after the last one back to the loop
\* head (the next model call, while the iteration budget of process_query lasts).
C9_UnknownToolRecovered ==
    [][ AtUnknownTool =>
          /\ msgs' = Append(msgs, ToolMessage(NotFound(tc.name), tc.id))
          /\ pc' # "raised"
          /\ outcome'.kind # "raised"
          /\ IF tcIdx < Len(resp.tool_calls)
             THEN pc' = "tools" /\ tcIdx' = tcIdx + 1 /\ resp' = resp
             ELSE \/ pc' = "model"
                  \/ HasBudget(driver) /\ iteration = max_iterations /\ pc' = "returned"
      ]_vars

\* C9 witness: an unknown-tool error result followed by the result of the turn's
\* next request, and an unknown-tool error result for the turn's last request
\* followed by the next assistant message.
C9_Witness ==
    \E i \in 1..(Len(msgs) - 3) :
        /\ msgs[i].type = "tool"
        /\ msgs[i].content = NotFound("nonexistent_tool")
        /\ msgs[i + 1].type = "tool"
        /\ msgs[i + 1].content = <<"result", "get_fight_odds">>
        /\ msgs[i + 1].tool_call_id = <<msgs[i].tool_call_id[1], msgs[i].tool_call_id[2] + 1>>
        /\ msgs[i + 2].type = "tool"
        /\ msgs[i + 2].content = NotFound("nonexistent_tool")
        /\ msgs[i + 3].type = "ai"

ModelFailed == outcome.kind = "raised" /\ outcome.by = "model"

AssistantMessages == {i \in DOMAIN msgs : msgs[i].type = "ai"}

\* C10: an error of the model endpoint at call k ends the run with that error: the
\* model was called exactly k times (k - 1 replies are in the conversation), and
\* afterwards the run calls neither the model nor a tool.
C10_ModelErrorEndsRun ==
    /\ [](ModelFailed =>
            /\ pc = "raised"
            /\ outcome.content = <<"model error", modelCalls>>
            /\ Cardinality(AssistantMessages) = modelCalls - 1
            /\ (HasBudget(driver) => iteration = modelCalls))
    /\ [][ModelFailed => UNCHANGED <<modelCalls, iteration, msgs, tool_calls, pc, outcome>>]_vars

\* C10 witness: the model fails on a later call, after tools were executed.
C10_Witness ==
    ModelFailed /\ modelCalls >= 2 /\ Len(msgs) >= 3 /\ msgs[Len(msgs)].type = "tool"

----------------------------------------------------------------------------
(* Claims about the circuit breaker (checked under SpecCB) *)

\* The breaker is OPEN and less than recovery_timeout has passed since the last failure.
OpenAndCooling == state = "OPEN" /\ now - last_failure_time < recovery_timeout

\* C4: while OPEN and before recovery_timeout has elapsed since the last recorded
\* failure, a call attempt is rejected and the wrapped function is not invoked.
C4_OpenRejectsWithoutInvoking ==
    [][ OpenAndCooling => (invocations' = invocations /\ ev'.op # "admit") ]_vars

\* C4 witness: a call was just rejected by an OPEN breaker that is still cooling.
C4_Witness ==
    /\ ev.op = "reject" /\ ev.pre = "OPEN"
    /\ OpenAndCooling
    /\ invocations >= failure_threshold

\* C5: from CLOSED the breaker opens exactly when the failures recorded since the
\* last success reach failure_threshold; below that it is still CLOSED.
C5_OpensExactlyAtThreshold ==
    /\ [](state = "CLOSED" => consecFailures < failure_threshold)
    /\ [][ (state = "CLOSED" /\ state' # "CLOSED") =>
             (state' = "OPEN" /\ ev'.op = "failure" /\ consecFailures' = failure_threshold) ]_vars
    /\ [][ (state = "CLOSED" /\ consecFailures' >= failure_threshold) => state' = "OPEN" ]_vars

\* C5 witness: the threshold-th consecutive failure has just opened a CLOSED breaker.
C5_Witness ==
    /\ state = "OPEN" /\ ev.op = "failure" /\ ev.pre = "CLOSED"
    /\ consecFailures = failure_threshold

\* At least recovery_timeout has passed since the last recorded failure.
TimeoutElapsed == last_failure_time # NoTime /\ now - last_failure_time >= recovery_timeout

\* A step that is a call attempt.
CallAttempt == ev'.op \in {"admit", "reject"}

\* C6: a call attempted on an OPEN breaker at least recovery_timeout after the last
\* failure moves it to HALF_OPEN and reaches the wrapped function; the breaker
\* leaves OPEN in no other way, in particular not when time passes.
C6_LazyHalfOpen ==
    /\ [][ (state = "OPEN" /\ TimeoutElapsed /\ CallAttempt) =>
             (state' = "HALF_OPEN" /\ ev'.op = "admit" /\ invocations' = invocations + 1) ]_vars
    /\ [][ (state = "OPEN" /\ state' # "OPEN") =>
             (state' = "HALF_OPEN" /\ ev'.op = "admit" /\ TimeoutElapsed) ]_vars

\* C6 witness: a call has just been admitted by a breaker that was OPEN.
C6_Witness == ev.op = "admit" /\ ev.pre = "OPEN" /\ state = "HALF_OPEN" /\ inflight.probe > 0

\* C7: HALF_OPEN becomes CLOSED only after success_threshold successes of calls that
\* were admitted as probes.
C7_ClosesOnlyAfterProbeSuccesses ==
    [][ (state = "HALF_OPEN" /\ state' = "CLOSED") =>
          probeSuccesses' >= success_threshold ]_vars

\* C8: a failure recorded while HALF_OPEN opens the breaker, whatever the number of
\* probe successes before it.
C8_HalfOpenFailureOpens ==
    [][ (state = "HALF_OPEN" /\ ev'.op = "failure") => state' = "OPEN" ]_vars

\* C8 witness: a failure was recorded in HALF_OPEN after a probe success.
C8_Witness == ev.op = "failure" /\ ev.pre = "HALF_OPEN" /\ ev.sc >= 1 /\ state = "OPEN"

----------------------------------------------------------------------------
(* Further claims about the tool-calling loops (checked under Spec) *)

ToolResultsObtained == {i \in DOMAIN msgs : msgs[i].type = "tool" /\ msgs[i].content[1] = "result"}

\* Provider invocations the loop has made: those that returned and the one that raised.
ProviderInvocationsByLoop ==
    Cardinality(ToolResultsObtained) + (IF outcome.by = "tool" THEN 1 ELSE 0)

\* C11: every tool invocation of the loop goes through the resilience wrapper: each
\* provider invocation of the loop is an invocation made by CircuitBreaker.call.
C11_EveryToolCallThroughBreaker == ProviderInvocationsByLoop <= invocations

\* The names of the tool requests of the assistant messages ms, in emission order.
RECURSIVE RequestedNames(_)
RequestedNames(ms) ==
    IF ms = <<>> THEN <<>>
    ELSE LET m == Head(ms) IN
         [i \in 1..Len(m.tool_calls) |-> m.tool_calls[i].name] \o RequestedNames(Tail(ms))

TraceNames == [i \in 1..Len(tool_calls) |-> tool_calls[i].name]

FinalAnswerGiven == pc = "returned" /\ resp.type = "ai" /\ Len(resp.tool_calls) = 0

\* C12: when the model gives its final answer on call k the run has made exactly k
\* model calls, the answer is the text of the k-th assistant message, the trace of
\* process_query holds one record per tool request of calls 1..k-1 in emission
\* order, and as many tool calls were logged to the monitor.
C12_FinalAnswerAndTrace ==
    FinalAnswerGiven =>
        LET k == Cardinality(AssistantMessages) IN
        /\ modelCalls = k
        /\ msgs[Len(msgs)].type = "ai"
        /\ outcome.kind = "answer"
        /\ outcome.content = msgs[Len(msgs)].content
        /\ outcome.content = <<"text", k>>
        /\ HasTrace(driver) => TraceNames = RequestedNames(msgs)
        /\ total_tool_calls(monitor) = Len(RequestedNames(msgs))

\* C12 witness: process_query answers on its third call or later, after turns that
\* used both kinds of request list.
C12_Witness ==
    /\ FinalAnswerGiven /\ driver = "process_query"
    /\ modelCalls >= 3 /\ Len(tool_calls) >= 4
    /\ \E i \in DOMAIN tool_calls : tool_calls[i].name = "get_fighter_stats"

\* The conversation ends with resp followed by the results of its first n requests,
\* in request order, each carrying the id of its request.
TurnResultsInOrder(n) ==
    LET base == Len(msgs) - n IN
    /\ base >= 1
    /\ msgs[base] = resp
    /\ \A j \in 1..n :
          /\ msgs[base + j].type = "tool"
          /\ msgs[base + j].tool_call_id = resp.tool_calls[j].id

ToolMessages == {i \in DOMAIN msgs : msgs[i].type = "tool"}

\* C13: the requests of a turn are executed one at a time in emission order: when
\* the loop is at request i the results of requests 1..i-1, and no others, follow the
\* assistant message; when the loop is back at its head (and when it returns) every
\* request of the turn has its result, in order; no id has two results.
C13_SequentialInOrder ==
    /\ pc = "tools" => TurnResultsInOrder(tcIdx - 1)
    /\ (pc \in {"model", "returned"} /\ resp.type = "ai") =>
           TurnResultsInOrder(Len(resp.tool_calls))
    /\ \A i, j \in ToolMessages : msgs[i].tool_call_id = msgs[j].tool_call_id => i = j

\* C13 witness: the loop is back at its head after a turn of three requests.
C13_Witness ==
    /\ pc = "model" /\ resp.type = "ai" /\ Len(resp.tool_calls) = 3
    /\ Len(msgs) >= 5

----------------------------------------------------------------------------
(* Claims about retry_with_backoff (checked under SpecRetry) *)

Successes == {i \in DOMAIN attempts_made : attempts_made[i] = "ok"}

\* C14: retry_with_backoff returns at the first success, with the value of that
\* attempt, and does not invoke func again; in particular, if func fails on attempts
\* 1..n-1 and succeeds on attempt n = max_attempts, it returns after n invocations.
C14_ReturnsAtFirstSuccess ==
    /\ [](Successes # {} =>
            /\ rpc = "returned"
            /\ Successes = {Len(attempts_made)}
            /\ retry_result = [kind |-> "value", value |-> <<"value", Len(attempts_made)>>])
    /\ [](rpc = "returned" =>
            /\ Successes # {}
            /\ Len(attempts_made) <= config.max_attempts
            /\ Len(sleeps) = Len(attempts_made) - 1)
    /\ [][rpc = "returned" => attempts_made' = attempts_made]_vars

\* C14 witness: func failed on attempts 1..n-1 and succeeded on the last attempt, n >= 3.
C14_Witness ==
    /\ rpc = "returned"
    /\ Len(attempts_made) = config.max_attempts
    /\ config.max_attempts >= 3

RECURSIVE Pow(_, _)
Pow(b, e) == IF e = 0 THEN 1 ELSE b * Pow(b, e - 1)

\* The k-th term of the geometric series capped at max_delay.
CappedTerm(k) ==
    Min(config.initial_delay * Pow(config.backoff_factor, k - 1), config.max_delay)

\* C15: the k-th sleep lasts min(initial_delay * backoff_factor^(k-1), max_delay), for
\* every configuration.
C15_SleepsAreCappedSeries ==
    \A k \in DOMAIN sleeps : sleeps[k] = CappedTerm(k)

AllFailed == attempts_made # <<>> /\ \A i \in DOMAIN attempts_made : attempts_made[i] = "err"

\* C16: when func fails on every one of max_attempts >= 1 attempts, retry_with_backoff
\* raises the exception of the last attempt after exactly max_attempts invocations
\* and max_attempts - 1 sleeps, and does not sleep after the last failure.
C16_RaisesLastAfterMaxAttempts ==
    /\ []((rpc = "raised" /\ config.max_attempts >= 1) =>
            /\ AllFailed
            /\ Len(attempts_made) = config.max_attempts
            /\ retry_result = [kind |-> "raised", value |-> <<"exc", config.max_attempts>>]
            /\ Len(sleeps) = config.max_attempts - 1)
    /\ []((AllFailed /\ Len(attempts_made) = config.max_attempts) => rpc = "raised")
    /\ [][rpc = "raised" => (sleeps' = sleeps /\ attempts_made' = attempts_made)]_vars

\* C16 witness: three or more attempts all failed.
C16_Witness ==
    rpc = "raised" /\ AllFailed /\ Len(attempts_made) >= 3 /\ Len(sleeps) >= 2

----------------------------------------------------------------------------
(* Further claims about the circuit breaker (checked under SpecCB) *)

\* The state the sequential rules give after a failure, from the failures recorded
\* since the last success.
StateAfterFailure ==
    IF state = "HALF_OPEN" THEN "OPEN"
    ELSE IF consecFailures + 1 >= failure_threshold THEN "OPEN"
    ELSE state

\* The state the sequential rules give after a success.
StateAfterSuccess ==
    IF state = "HALF_OPEN" /\ success_count + 1 >= success_threshold THEN "CLOSED" ELSE state

\* C17: with callers interleaving at their await points no recorded outcome is lost
\* or half-applied: failure_count is the number of failures recorded since the last
\* recorded success, every recorded outcome ends one pending call and moves the
\* state as the sequential rules say, and no other step touches the counters.
C17_OutcomesAppliedAtomically ==
    /\ [](failure_count = consecFailures)
    /\ [][ ev'.op = "failure" =>
             /\ state' = StateAfterFailure
             /\ failure_count' = failure_count + 1
             /\ last_failure_time' = now
             /\ inflight'.normal + inflight'.probe = inflight.normal + inflight.probe - 1 ]_vars
    /\ [][ ev'.op = "success" =>
             /\ state' = StateAfterSuccess
             /\ failure_count' = 0
             /\ inflight'.normal + inflight'.probe = inflight.normal + inflight.probe - 1 ]_vars
    /\ [][ ev'.op \in {"tick", "reject", "admit"} =>
             UNCHANGED <<failure_count, last_failure_time>> ]_vars

\* C17 witness: the success of a call admitted earlier is recorded while the breaker
\* is OPEN and another call is still pending.
C17_Witness ==
    /\ ev.op = "success" /\ ev.pre = "OPEN"
    /\ inflight.normal + inflight.probe >= 1
    /\ failure_count = 0 /\ state = "OPEN"

----------------------------------------------------------------------------
(* Claims about the tool registry (checked under SpecPlatform) *)

\* Two tools of the list have the same name and come from different servers.
NameCollision(ts) ==
    \E i, j \in 1..Len(ts) : i < j /\ ts[i].name = ts[j].name /\ ts[i].server # ts[j].server

\* C18: when two servers declare the same tool name, building the registry fails
\* with a configuration error; it never completes with one of the two tools kept.
C18_CollisionIsConfigurationError ==
    (ipc \in {"returned", "raised"} /\ NameCollision(tools)) => ipc = "raised"

----------------------------------------------------------------------------
(* Claims about the breaker registry (checked under SpecBreakers) *)

\* The breaker a caller sees for a server name.
BreakerOf(n) == instances[circuit_breakers[n]]

Created == { n \in ServerNames : circuit_breakers[n] # 0 }

\* C19: the first get_circuit_breaker(name) creates a CLOSED breaker, every later
\* call for the name returns that same instance, different names have different
\* instances, and an outcome recorded through one name changes only the instance of
\* that name.
C19_OneBreakerPerName ==
    /\ [](\A n, m \in Created : n # m => circuit_breakers[n] # circuit_breakers[m])
    /\ [](Cardinality(Created) = Len(instances))
    /\ [][ \A n \in Created : circuit_breakers'[n] = circuit_breakers[n] ]_vars
    /\ [][ \A n \in ServerNames \ Created :
              circuit_breakers'[n] # 0 =>
                 /\ last_use'.op = "get" /\ last_use'.name = n
                 /\ instances'[circuit_breakers'[n]] = NewCircuitBreaker ]_vars
    /\ [][ last_use'.op = "get" =>
              /\ last_use'.ref = circuit_breakers'[last_use'.name]
              /\ last_use'.name \in Created => last_use'.ref = circuit_breakers[last_use'.name]
              /\ \A i \in 1..Len(instances) : instances'[i] = instances[i] ]_vars
    /\ [][ last_use'.op \in {"record_success", "record_failure"} =>
              \A i \in 1..Len(instances) :
                  i # circuit_breakers[last_use'.name] => instances'[i] = instances[i] ]_vars

\* C19 witness: a later get for a server returns the breaker that five failures
\* opened, while the breaker of another server is still as created.
C19_Witness ==
    /\ last_use.op = "get" /\ last_use.name = "boxing_analytics"
    /\ last_use.ref = circuit_breakers["boxing_analytics"]
    /\ circuit_breakers["boxing_analytics"] # 0
    /\ BreakerOf("boxing_analytics").state = "OPEN"
    /\ circuit_breakers["betting_odds"] # 0
    /\ BreakerOf("betting_odds") = NewCircuitBreaker

----------------------------------------------------------------------------
(* Claims about the fallback (checked under SpecRetry) *)

\* C20: when every attempt of a call has failed, the caller gets the structured
\* degraded response of FallbackHandler.get_fallback instead of an exception.
C20_ExhaustedRetriesGiveFallback ==
    (rpc \in {"returned", "raised"} /\ config.max_attempts > 0
       /\ \A i \in 1..Len(attempts_made) : attempts_made[i] = "err")
    => /\ rpc = "returned"
       /\ retry_result.kind = "returned"
       /\ \E t \in FallbackToolNames : retry_result.value = get_fallback(t, last_exception)

----------------------------------------------------------------------------
(* Further claims about one circuit breaker (checked under SpecCB) *)

\* C23: a success recorded while CLOSED sets failure_count to 0 and leaves the
\* breaker CLOSED, so the breaker opens from CLOSED only on failure_threshold
\* failures with no success recorded between them.
C23_SuccessInClosedResets ==
    /\ [][ (ev'.op = "success" /\ state = "CLOSED") =>
              (failure_count' = 0 /\ state' = "CLOSED") ]_vars
    /\ [][ (ev'.op = "failure" /\ state = "CLOSED" /\ state' = "OPEN") =>
              consecFailures' >= failure_threshold ]_vars
    /\ [](state = "CLOSED" => failure_count = consecFailures)

\* C23 witness: a success was just recorded in CLOSED after an earlier failure.
C23_Witness ==
    /\ ev.op = "success" /\ ev.pre = "CLOSED"
    /\ last_failure_time # NoTime
    /\ state = "CLOSED" /\ failure_count = 0

\* C26: CLOSED implies failure_count < failure_threshold, HALF_OPEN implies
\* success_count < success_threshold, OPEN implies last_failure_time is set.
C26_StateCounterInvariant ==
    /\ state = "CLOSED" => failure_count < failure_threshold
    /\ state = "HALF_OPEN" => success_count < success_threshold
    /\ state = "OPEN" => last_failure_time # NoTime

\* C26 witness: the breaker closed again after having been opened and probed.
C26_Witness ==
    /\ state = "CLOSED" /\ ev.op = "success" /\ ev.pre = "HALF_OPEN"
    /\ success_count >= success_threshold
    /\ last_failure_time # NoTime

\* C27: while HALF_OPEN no call is rejected: every call attempted is passed to the
\* wrapped function, whatever the number of probes already pending.
C27_HalfOpenAdmitsEveryCall ==
    /\ [][ (ev'.op \in {"admit", "reject"} /\ state = "HALF_OPEN") =>
              /\ ev'.op = "admit"
              /\ invocations' = invocations + 1
              /\ inflight'.probe = inflight.probe + 1 ]_vars
    /\ [][ ev'.op = "reject" => state = "OPEN" ]_vars

\* C27 witness: two probes are pending at once, the second admitted while the
\* first was pending.
C27_Witness ==
    /\ state = "HALF_OPEN" /\ ev.op = "admit" /\ ev.pre = "HALF_OPEN"
    /\ inflight.probe >= 2

\* C28: a failure recorded while OPEN or HALF_OPEN leaves the breaker OPEN with
\* last_failure_time set to that moment, and a call attempted while OPEN is admitted
\* only when recovery_timeout has passed since the last recorded failure.
C28_FailureRestartsRecoveryTimer ==
    /\ [][ (ev'.op = "failure" /\ state \in {"OPEN", "HALF_OPEN"}) =>
              (state' = "OPEN" /\ last_failure_time' = now) ]_vars
    /\ [][ ev'.op = "failure" => last_failure_time' = now ]_vars
    /\ [][ (ev'.op = "admit" /\ state = "OPEN") =>
              now - last_failure_time >= recovery_timeout ]_vars
    /\ [][ (ev'.op \in {"admit", "reject"} /\ state = "OPEN"
              /\ now - last_failure_time < recovery_timeout) => ev'.op = "reject" ]_vars
    /\ [](state = "OPEN" => last_failure_time <= now)

\* C28 witness: the late failure of a call admitted before the breaker opened is
\* recorded while OPEN, later than the failure that opened it.
C28_Witness ==
    /\ ev.op = "failure" /\ ev.pre = "OPEN"
    /\ state = "OPEN" /\ last_failure_time = now /\ now >= TickStep
    /\ failure_count > failure_threshold

----------------------------------------------------------------------------
(* Further claims about retry_with_backoff (checked under SpecRetry) *)

\* C30: with max_attempts <= 0 the function is never invoked, nothing is slept, and
\* the call ends only by raising, never by returning a value.
C30_NoAttemptsEndsWithError ==
    config.max_attempts <= 0 =>
        /\ attempts_made = <<>>
        /\ sleeps = <<>>
        /\ rpc \in {"loop", "raised"}
        /\ rpc = "raised" => retry_result.kind = "raised"

\* C30 witness: retry_with_backoff with a negative max_attempts has raised.
C30_Witness ==
    /\ config.max_attempts < 0 /\ rpc = "raised"
    /\ retry_result.kind = "raised" /\ attempts_made = <<>>

----------------------------------------------------------------------------
(* Liveness of the circuit breaker (checked under SpecCBLive) *)

\* C29: when the wrapped function fails only up to some moment, time keeps advancing
\* and calls keep being attempted, the breaker eventually is CLOSED and stays CLOSED.
C29_EventuallyClosedForGood == <>[](state = "CLOSED")

\* C29 witness: after the last moment of failures the breaker, which had opened,
\* closes on the second probe success.
C29_Witness ==
    /\ now > FailuresStopAt
    /\ ev.op = "success" /\ ev.pre = "HALF_OPEN"
    /\ state = "CLOSED" /\ last_failure_time # NoTime

----------------------------------------------------------------------------
(* Claims about timeouts (checked under SpecTimed) *)

\* An attempt has just ended with the timeout error.
TimedOutStep ==
    /\ tpc = "await" /\ tpc' \in {"sleep", "raised"}
    /\ tev'.exc = "TimeoutError" /\ tev'.attempt = tattempt

\* C22: a call that reaches its deadline ends with TimeoutError and never runs
\* longer; the breaker records that error as a failure, and retry_with_backoff
\* sleeps and tries again while attempts remain, raising it on the last attempt.
C22_TimeoutCountsAsFailure ==
    /\ [](telapsed <= tconfig.timeout)
    /\ [][ (tpc = "await" /\ telapsed = tconfig.timeout /\ tpc' # tpc) =>
              (tev'.exc = "TimeoutError" /\ tev'.attempt = tattempt
                 /\ tpc' \in {"sleep", "raised"}) ]_vars
    /\ [][ TimedOutStep =>
              /\ tbreaker'.failure_count = tbreaker.failure_count + 1
              /\ tbreaker'.last_failure_time = tnow
              /\ tbreaker'.state =
                    (IF tbreaker.state = "HALF_OPEN"
                        \/ tbreaker.failure_count + 1 >= failure_threshold
                     THEN "OPEN" ELSE tbreaker.state)
              /\ IF tattempt < tconfig.retry.max_attempts
                 THEN tpc' = "sleep" /\ toutcome' = NoResult
                 ELSE tpc' = "raised" /\ toutcome'.value = <<"TimeoutError">> ]_vars
    /\ [][ (tpc = "sleep" /\ tpc' # tpc) =>
              (tpc' = "loop" /\ tattempt < tconfig.retry.max_attempts) ]_vars

\* C22 witness: the second attempt is running after the first one timed out and
\* was recorded as a failure.
C22_Witness ==
    /\ tpc = "await" /\ tattempt = 2
    /\ tev.exc = "TimeoutError" /\ tev.attempt = 1
    /\ tbreaker.failure_count = 1

----------------------------------------------------------------------------
(* Claims about the monitor (checked under SpecMonitor) *)

\* The count get_stats reports for a tool name (0 when the name has no entry).
BreakdownCount(st, n) ==
    IF n \in DOMAIN st.tool_breakdown THEN st.tool_breakdown[n].count ELSE 0

\* The per-tool counts of a breakdown, added up.
BreakdownTotal(st) ==
    LET counts == [n \in DOMAIN st.tool_breakdown |-> st.tool_breakdown[n].count]
    IN SumOver(counts, DOMAIN counts)

\* C21: for every monitor, get_stats reports as total_queries the number of
\* log_query operations made on it, as total_tool_calls the number of log_tool_call
\* operations, and per tool the number of log_tool_call operations with that name,
\* which add up to total_tool_calls.
C21_StatsCountOperations ==
    \A i \in 1..Len(monitor_objects) :
        LET st == get_stats(monitor_objects[i])
        IN /\ st.total_queries = tally[i].queries
           /\ st.total_tool_calls = tally[i].calls["get_fighter_stats"]
                                      + tally[i].calls["get_fight_odds"]
           /\ \A n \in tool_map : BreakdownCount(st, n) = tally[i].calls[n]
           /\ BreakdownTotal(st) = st.total_tool_calls

\* C21 witness: a monitor with a query and three tool calls, two of one name.
C21_Witness ==
    \E i \in 1..Len(monitor_objects) :
        /\ tally[i].queries = 1
        /\ tally[i].calls["get_fighter_stats"] = 2
        /\ tally[i].calls["get_fight_odds"] = 1
        /\ get_stats(monitor_objects[i]).total_tool_calls = 3

\* Statistics with nothing logged.
ZeroStats(st) ==
    st.total_queries = 0 /\ st.total_tool_calls = 0 /\ st.errors = 0
      /\ DOMAIN st.tool_breakdown = {}

\* C24: get_monitor() creates the monitor when there is none and otherwise returns
\* the one in place; only reset_monitor() replaces it, by an object distinct from
\* all earlier ones whose statistics are zero; what the current monitor reports is
\* what was logged on it since.
C24_SingletonUntilReset ==
    /\ [][ mon_ev'.op = "get" =>
              /\ mon_ev'.ref = global_monitor' /\ local_monitor' = global_monitor'
              /\ global_monitor # 0 =>
                    /\ global_monitor' = global_monitor
                    /\ monitor_objects' = monitor_objects
              /\ global_monitor = 0 =>
                    /\ global_monitor' = Len(monitor_objects) + 1
                    /\ ZeroStats(get_stats(monitor_objects'[global_monitor'])) ]_vars
    /\ [][ (global_monitor # 0 /\ global_monitor' # global_monitor) =>
              mon_ev'.op = "reset" ]_vars
    /\ [][ (mon_ev'.op = "reset" /\ resets' # resets) =>
              /\ global_monitor' \notin 1..Len(monitor_objects)
              /\ global_monitor' \in 1..Len(monitor_objects')
              /\ ZeroStats(get_stats(monitor_objects'[global_monitor']))
              /\ \A i \in 1..Len(monitor_objects) : monitor_objects'[i] = monitor_objects[i] ]_vars
    /\ [](global_monitor # 0 =>
            LET st == get_stats(monitor_objects[global_monitor])
            IN /\ st.total_queries = tally[global_monitor].queries
               /\ st.errors = tally[global_monitor].errors
               /\ \A n \in tool_map : BreakdownCount(st, n) = tally[global_monitor].calls[n])

\* C24 witness: right after a reset the current monitor reports nothing, while the
\* monitor it replaced had a query and a tool call logged.
C24_Witness ==
    /\ mon_ev.op = "reset" /\ global_monitor >= 2
    /\ ZeroStats(get_stats(monitor_objects[global_monitor]))
    /\ \E i \in 1..(global_monitor - 1) :
          /\ get_stats(monitor_objects[i]).total_queries >= 1
          /\ get_stats(monitor_objects[i]).total_tool_calls >= 1

----------------------------------------------------------------------------
(* Claims about the MCP servers (checked under SpecProvider) *)

\* The request names a declared tool that needs the key and carries the arguments
\* the tool requires.
WellFormedSecretRequest ==
    /\ request.name \in ToolsOf(provider)
    /\ NeedsSecret(provider, request.name)
    /\ RequiredFields(provider, request.name) \subseteq request.arguments

====
